---- MODULE Spec2Model ----
(***************************************************************************)
(* A model of src/src/main.rs: the snake simulation (GameState::reset,     *)
(* update_snake, update_env), the per-frame handler update_game in its two *)
(* control modes (Mode::Keyboard, Mode::External), the tick loop           *)
(* run_as_game and the agent thread that main spawns on the other ends of  *)
(* the two mpsc channels.                                                  *)
(*                                                                         *)
(* A position is a pair <<column, row>>.  Option<(isize, isize)> is a      *)
(* sequence of length 0 (None) or 1 (Some).  The board of the source is    *)
(* 16 x 16 with the snake starting on (8,8), the centre cell; the model    *)
(* runs the same code on boards of 2..MaxBoard columns and rows, the snake *)
(* starting on the centre cell (width / 2, height / 2).  main wires the    *)
(* window game to Mode::External; Mode::Keyboard, the mode init leaves, is *)
(* modelled as the other configuration of the same GameState.  With ten    *)
(* frames to a step the Keyboard game is explored on the 2 x 2 board.      *)
(***************************************************************************)
EXTENDS Integers, Sequences, FiniteSets, TLC

VARIABLES
    control_mode,     \* GameState.control_mode: "Keyboard" or "External"
    board_size,       \* GameState.board_size: <<width, height>>
    game_over,        \* GameState.game_over
    allow_move,       \* GameState.allow_move
    fruit_position,   \* GameState.fruit_position: <<>> or <<pos>>
    snake_position,   \* GameState.snake_position: head first
    snake_velocity,   \* GameState.snake_velocity
    score,            \* GameState.score
    frames_counter,   \* WindowData.frames_counter, kept modulo FramesPerStep
    pause,            \* WindowData.pause
    key_pressed,      \* what get_key_pressed() returned to the last frame
    state_queue,      \* snapshots in flight, simulation -> agent
    move_queue,       \* intents in flight, agent -> simulation
    sim_pc,           \* the simulation thread: "tick", "recv", "panicked", "closed"
    agent_pc,         \* the agent thread: "recv", "send", "dead"
    agent_state,      \* the State the agent received last: <<>> or <<State>>
    steps,            \* update_snake calls since the game (re)started
    step_end,         \* the game as the last completed update_snake/update_env left it
    twin              \* the same game under Mode::External, for the comparison of the modes

vars == <<control_mode, board_size, game_over, allow_move, fruit_position,
          snake_position, snake_velocity, score, frames_counter, pause,
          key_pressed, state_queue, move_queue, sim_pc, agent_pc, agent_state,
          steps, step_end, twin>>

game_vars == <<game_over, allow_move, fruit_position, snake_position,
               snake_velocity, score>>

(***************************************************************************)
(* Bounds of the model.                                                    *)
(***************************************************************************)
MaxBoard == 3    \* boards have 2..MaxBoard columns and 2..MaxBoard rows
MaxSteps == 7    \* update_snake calls explored per game
MaxLen == 5      \* a tick other than a reset runs only on a shorter body

(***************************************************************************)
(* Program constants.                                                      *)
(***************************************************************************)
FramesPerStep == 10   \* frames_counter % 10
FruitScore == 20      \* self.score += 20
StepCost == 1         \* self.score -= 1

Moves == {"TOP", "BTM", "LFT", "RHT", "PAS"}
Keys == {"KEY_RIGHT", "KEY_LEFT", "KEY_DOWN", "KEY_UP", "NONE"}

Boards == (2..MaxBoard) \X (2..MaxBoard)
WindowBoards == {<<2, 2>>}
Configs == ({"External"} \X Boards) \cup ({"Keyboard"} \X WindowBoards)
Cells(bs) == (0..(bs[1] - 1)) \X (0..(bs[2] - 1))
StartPosition(bs) == <<bs[1] \div 2, bs[2] \div 2>>
StartVelocity == <<1, 0>>

None == <<>>
Some(p) == <<p>>

(***************************************************************************)
(* The game as a record, so that the helpers of update_game compose.       *)
(***************************************************************************)
Game == [game_over |-> game_over, allow_move |-> allow_move,
         fruit_position |-> fruit_position, snake_position |-> snake_position,
         snake_velocity |-> snake_velocity, score |-> score]

\* a mutant of reset: the score is left as the lost game had it
reset_KeepsScore(g, bs) ==
    [g EXCEPT !.game_over = FALSE,
              !.snake_position = <<StartPosition(bs)>>,
              !.fruit_position = None,
              !.snake_velocity = StartVelocity]

\* GameState::reset: everything but allow_move, board_size and control_mode
reset(g, bs) ==
    [g EXCEPT !.game_over = FALSE,
              !.snake_position = <<StartPosition(bs)>>,
              !.fruit_position = None,
              !.score = 0,
              !.snake_velocity = StartVelocity]

\* a mutant of OutOfBoard: > where the source has >=
OutOfBoard_OffByOne(p, bs) ==
    \/ p[1] > bs[1]
    \/ p[2] > bs[2]
    \/ p[1] < 0
    \/ p[2] < 0

\* a mutant of OutOfBoard: the two tests against 0 are missing
OutOfBoard_NoLowerBound(p, bs) ==
    \/ p[1] >= bs[1]
    \/ p[2] >= bs[2]

\* update_snake, lines 124-130: the wall test on the new head
OutOfBoard(p, bs) ==
    \/ p[1] >= bs[1]
    \/ p[2] >= bs[2]
    \/ p[1] < 0
    \/ p[2] < 0

\* update_snake, lines 132-136: the new head against the shifted segments
HitsSelf(body) == \E i \in 2..Len(body) : body[1] = body[i]

\* update_snake, lines 117-122: shift toward the tail, head + velocity
Shifted(body, v) ==
    [i \in 1..Len(body) |->
        IF i = 1 THEN <<body[1][1] + v[1], body[1][2] + v[2]>> ELSE body[i - 1]]

\* update_snake: the state it leaves; its return value is LastPosition
LastPosition(g) == g.snake_position[Len(g.snake_position)]
update_snake(g, bs) ==
    LET body == Shifted(g.snake_position, g.snake_velocity)
    IN  [g EXCEPT !.snake_position = body,
                  !.game_over = g.game_over \/ OutOfBoard(body[1], bs) \/ HitsSelf(body),
                  !.allow_move = FALSE,
                  !.score = @ - StepCost]

\* update_env, lines 144-156: the fruit after the respawn
OnSnake(body, p) == \E i \in 1..Len(body) : body[i] = p
Respawn(g, last_position, random_position) ==
    IF g.fruit_position = None
    THEN IF OnSnake(g.snake_position, random_position)
         THEN Some(last_position)
         ELSE Some(random_position)
    ELSE g.fruit_position

\* update_env, lines 158-164: the capture test
Captures(body, fruit) == fruit # None /\ body[1] = fruit[1]

update_env(g, last_position, random_position) ==
    LET fruit == Respawn(g, last_position, random_position)
    IN  IF Captures(g.snake_position, fruit)
        THEN [g EXCEPT !.score = @ + FruitScore,
                       !.snake_position = Append(@, last_position),
                       !.fruit_position = None]
        ELSE [g EXCEPT !.fruit_position = fruit]

\* update_game, lines 266-271
MoveOrIdle(g, bs, random_position) ==
    IF g.allow_move
    THEN update_env(update_snake(g, bs), LastPosition(g), random_position)
    ELSE update_env(g, <<0, 0>>, random_position)

\* a mutant of KeyTurn: the turn taken without the test of the moving axis
KeyTurn_NoGuard(v, key) ==
    CASE key = "KEY_RIGHT" -> <<1, 0>>
      [] key = "KEY_LEFT"  -> <<-1, 0>>
      [] key = "KEY_DOWN"  -> <<0, 1>>
      [] key = "KEY_UP"    -> <<0, -1>>
      [] OTHER -> v

\* update_game, lines 174-197 (keys) and 242-262 (intents): the turn taken
KeyTurn(v, key) ==
    CASE key = "KEY_RIGHT" -> IF v[1] = 0 THEN <<1, 0>> ELSE v
      [] key = "KEY_LEFT"  -> IF v[1] = 0 THEN <<-1, 0>> ELSE v
      [] key = "KEY_DOWN"  -> IF v[2] = 0 THEN <<0, 1>> ELSE v
      [] key = "KEY_UP"    -> IF v[2] = 0 THEN <<0, -1>> ELSE v
      [] OTHER -> v

\* a mutant of MoveTurn: only the axis of the turn is assigned
MoveTurn_OneAxis(v, m) ==
    CASE m = "TOP" -> IF v[2] = 0 THEN <<v[1], -1>> ELSE v
      [] m = "BTM" -> IF v[2] = 0 THEN <<v[1], 1>> ELSE v
      [] m = "LFT" -> IF v[1] = 0 THEN <<-1, v[2]>> ELSE v
      [] m = "RHT" -> IF v[1] = 0 THEN <<1, v[2]>> ELSE v
      [] OTHER -> v

MoveTurn(v, m) ==
    CASE m = "TOP" -> IF v[2] = 0 THEN <<0, -1>> ELSE v
      [] m = "BTM" -> IF v[2] = 0 THEN <<0, 1>> ELSE v
      [] m = "LFT" -> IF v[1] = 0 THEN <<-1, 0>> ELSE v
      [] m = "RHT" -> IF v[1] = 0 THEN <<1, 0>> ELSE v
      [] OTHER -> v

\* update_game, lines 226-227 and 230: the index of a cell in State.board
SnakeIndex(p, bs) == bs[1] * p[1] + p[2]
FruitIndex(p, bs) == p[1] * bs[1] + p[2]
BoardLen(bs) == bs[1] * bs[2]

\* An index the Vec does not have: external_state[..] panics
IndexFaults(g, bs) ==
    \/ \E i \in 1..Len(g.snake_position) :
          LET p == g.snake_position[i]
          IN  p[1] < 0 \/ p[2] < 0 \/ SnakeIndex(p, bs) >= BoardLen(bs)
    \/ /\ g.fruit_position # None
       /\ LET p == g.fruit_position[1]
          IN  p[1] < 0 \/ p[2] < 0 \/ FruitIndex(p, bs) >= BoardLen(bs)

\* update_game, lines 223-238: vec![0; w*h], 1 on every segment, then 2 on the fruit
ExternalState(g, bs) ==
    [k \in 1..BoardLen(bs) |->
        IF g.fruit_position # None /\ FruitIndex(g.fruit_position[1], bs) = k - 1
        THEN 2
        ELSE IF \E i \in 1..Len(g.snake_position) :
                    SnakeIndex(g.snake_position[i], bs) = k - 1
             THEN 1
             ELSE 0]

\* a mutant of Snapshot: built from the game as the last step left it
Snapshot_Stale(g, bs) ==
    [board |-> ExternalState(step_end, bs), score |-> step_end.score]

Snapshot(g, bs) == [board |-> ExternalState(g, bs), score |-> g.score]

\* what step_end remembers of a game
Seen(g) == [snake_position |-> g.snake_position,
            fruit_position |-> g.fruit_position,
            snake_velocity |-> g.snake_velocity,
            score |-> g.score,
            game_over |-> g.game_over]

(***************************************************************************)
(* GameState::init, then main's game_state.control_mode = ...              *)
(***************************************************************************)
InitGame(bs) ==
    [game_over |-> FALSE, allow_move |-> FALSE, fruit_position |-> None,
     snake_position |-> <<StartPosition(bs)>>, snake_velocity |-> StartVelocity,
     score |-> 0]

InitIn(configs) ==
    /\ \E c \in configs : control_mode = c[1] /\ board_size = c[2]
    /\ game_over = FALSE
    /\ allow_move = FALSE
    /\ fruit_position = None
    /\ snake_position = <<StartPosition(board_size)>>
    /\ snake_velocity = StartVelocity
    /\ score = 0
    /\ frames_counter = 0
    /\ pause = FALSE
    /\ key_pressed = "NONE"
    /\ state_queue = <<>>
    /\ move_queue = <<>>
    /\ sim_pc = "tick"
    /\ agent_pc = "recv"
    /\ agent_state = <<>>
    /\ steps = 0
    /\ step_end = Seen(InitGame(board_size))
    /\ twin = [game |-> InitGame(board_size), drawn_by_direct |-> <<>>,
               drawn_by_twin |-> <<>>]

Init == InitIn(Configs)

\* the variables a game record is written back to
SetGame(g) ==
    /\ game_over' = g.game_over
    /\ allow_move' = g.allow_move
    /\ fruit_position' = g.fruit_position
    /\ snake_position' = g.snake_position
    /\ snake_velocity' = g.snake_velocity
    /\ score' = g.score

\* the model explores a tick only within its bounds
InBounds == steps < MaxSteps /\ Len(snake_position) < MaxLen

\* what a tick that ran MoveOrIdle on g leaves in steps and step_end
Stepped(g, after) ==
    /\ steps' = IF g.allow_move THEN steps + 1 ELSE steps
    /\ step_end' = IF g.allow_move THEN Seen(after) ELSE step_end

(***************************************************************************)
(* update_game, Mode::Keyboard, lines 169-211 and 266-271: one frame of    *)
(* run_as_game while the game is on.  pause is never written by the        *)
(* source, so the paused branch only skips the key and the frame counter.  *)
(***************************************************************************)
KeyboardTick(key, random_position) ==
    /\ control_mode = "Keyboard"
    /\ sim_pc = "tick"
    /\ ~game_over
    /\ InBounds
    /\ LET turned == IF pause THEN Game
                     ELSE [Game EXCEPT !.snake_velocity = KeyTurn(@, key),
                                       !.allow_move =
                                           IF frames_counter % FramesPerStep = 0
                                           THEN TRUE
                                           ELSE IF KeyTurn(snake_velocity, key) # snake_velocity
                                                THEN FALSE ELSE @]
           after == MoveOrIdle(turned, board_size, random_position)
       IN  /\ SetGame(after)
           /\ Stepped(turned, after)
           /\ key_pressed' = IF pause THEN "NONE" ELSE key
           /\ frames_counter' = IF pause THEN frames_counter
                                ELSE (frames_counter + 1) % FramesPerStep
    /\ UNCHANGED <<control_mode, board_size, pause, state_queue, move_queue,
                   sim_pc, agent_pc, agent_state>>

\* a frame of the window game: any key, any draw
KeyboardFrame ==
    /\ \E key \in Keys, random_position \in Cells(board_size) :
          KeyboardTick(key, random_position)
    /\ UNCHANGED twin

\* update_game, Mode::Keyboard, game over: Enter resets, then lines 266-271
KeyboardGameOver ==
    /\ control_mode = "Keyboard"
    /\ sim_pc = "tick"
    /\ game_over
    /\ \E enter \in BOOLEAN, random_position \in Cells(board_size) :
          LET before == IF enter THEN reset(Game, board_size) ELSE Game
              after == MoveOrIdle(before, board_size, random_position)
          IN  /\ enter \/ Len(snake_position) < MaxLen
              /\ SetGame(after)
              /\ steps' = (IF enter THEN 0 ELSE steps) + (IF before.allow_move THEN 1 ELSE 0)
              /\ step_end' = IF before.allow_move THEN Seen(after) ELSE step_end
    /\ key_pressed' = "NONE"
    /\ UNCHANGED <<twin, control_mode, board_size, frames_counter, pause, state_queue,
                   move_queue, sim_pc, agent_pc, agent_state>>

(***************************************************************************)
(* update_game, Mode::External, lines 212-239: up to the blocking recv.    *)
(***************************************************************************)
\* lines 216-221: game over, so reset and return
ExternalReset ==
    /\ control_mode = "External"
    /\ sim_pc = "tick"
    /\ game_over
    /\ SetGame([reset(Game, board_size) EXCEPT !.allow_move = TRUE])
    /\ steps' = 0
    /\ UNCHANGED <<twin, control_mode, board_size, frames_counter, pause, key_pressed,
                   state_queue, move_queue, sim_pc, agent_pc, agent_state, step_end>>

\* a mutant of ExternalSend: the tick ends after the send, without the recv
ExternalSend_NoWait ==
    /\ control_mode = "External"
    /\ sim_pc = "tick"
    /\ ~game_over
    /\ InBounds
    /\ allow_move' = TRUE
    /\ state_queue' = Append(state_queue, Snapshot(Game, board_size))
    /\ UNCHANGED <<twin, control_mode, board_size, game_over, fruit_position,
                   snake_position, snake_velocity, score, frames_counter, pause,
                   key_pressed, move_queue, sim_pc, agent_pc, agent_state, steps,
                   step_end>>

\* lines 223-239: build the snapshot and send it
ExternalSend ==
    /\ control_mode = "External"
    /\ sim_pc = "tick"
    /\ ~game_over
    /\ InBounds
    /\ allow_move' = TRUE
    /\ IF IndexFaults(Game, board_size) \/ agent_pc = "dead"
       THEN /\ sim_pc' = "panicked"
            /\ state_queue' = state_queue
       ELSE /\ sim_pc' = "recv"
            /\ state_queue' = Append(state_queue, Snapshot(Game, board_size))
    /\ UNCHANGED <<twin, control_mode, board_size, game_over, fruit_position,
                   snake_position, snake_velocity, score, frames_counter, pause,
                   key_pressed, move_queue, agent_pc, agent_state, steps, step_end>>

\* lines 241-271: an intent arrives, the turn, update_snake, update_env
ExternalRecv ==
    /\ control_mode = "External"
    /\ sim_pc = "recv"
    /\ move_queue # <<>>
    /\ \E random_position \in Cells(board_size) :
          \E turned \in {[Game EXCEPT !.snake_velocity = MoveTurn(@, Head(move_queue))]} :
          \E after \in {MoveOrIdle(turned, board_size, random_position)} :
              /\ SetGame(after)
              /\ Stepped(turned, after)
    /\ move_queue' = Tail(move_queue)
    /\ sim_pc' = "tick"
    /\ UNCHANGED <<twin, control_mode, board_size, frames_counter, pause, key_pressed,
                   state_queue, agent_pc, agent_state>>

\* a mutant of ExternalRecvFail: the Err is dropped and the tick goes on
ExternalRecvFail_Skip ==
    /\ control_mode = "External"
    /\ sim_pc = "recv"
    /\ move_queue = <<>>
    /\ agent_pc = "dead"
    /\ \E random_position \in Cells(board_size) :
          LET after == MoveOrIdle(Game, board_size, random_position)
          IN  SetGame(after) /\ Stepped(Game, after)
    /\ sim_pc' = "tick"
    /\ UNCHANGED <<twin, control_mode, board_size, frames_counter, pause, key_pressed,
                   state_queue, move_queue, agent_pc, agent_state>>

\* line 241: recv() on an empty channel whose sender is gone is an Err; unwrap panics
ExternalRecvFail ==
    /\ control_mode = "External"
    /\ sim_pc = "recv"
    /\ move_queue = <<>>
    /\ agent_pc = "dead"
    /\ sim_pc' = "panicked"
    /\ UNCHANGED <<twin, control_mode, board_size, game_vars, frames_counter, pause,
                   key_pressed, state_queue, move_queue, agent_pc, agent_state,
                   steps, step_end>>

\* run_as_game, lines 383-387: the window was closed, the loop returns
WindowClose ==
    /\ sim_pc = "tick"
    /\ sim_pc' = "closed"
    /\ UNCHANGED <<twin, control_mode, board_size, game_vars, frames_counter, pause,
                   key_pressed, state_queue, move_queue, agent_pc, agent_state,
                   steps, step_end>>

(***************************************************************************)
(* The agent thread, main lines 414-464.                                   *)
(***************************************************************************)
SimGone == sim_pc \in {"panicked", "closed"}

\* lines 437-439: states.1.recv().unwrap()
AgentRecv ==
    /\ control_mode = "External"
    /\ agent_pc = "recv"
    /\ state_queue # <<>>
    /\ agent_state' = <<Head(state_queue)>>
    /\ state_queue' = Tail(state_queue)
    /\ agent_pc' = "send"
    /\ UNCHANGED <<twin, control_mode, board_size, game_vars, frames_counter, pause,
                   key_pressed, move_queue, sim_pc, steps, step_end>>

\* a mutant of AgentSend: the agent goes back to its recv without sending
AgentSend_Drops ==
    /\ control_mode = "External"
    /\ agent_pc = "send"
    /\ ~SimGone
    /\ agent_pc' = "recv"
    /\ UNCHANGED <<twin, control_mode, board_size, game_vars, frames_counter, pause,
                   key_pressed, state_queue, move_queue, sim_pc, agent_state,
                   steps, step_end>>

\* lines 452-461: moves.0.send(..).unwrap()
AgentSend ==
    /\ control_mode = "External"
    /\ agent_pc = "send"
    /\ ~SimGone
    /\ \E m \in Moves : move_queue' = Append(move_queue, m)
    /\ agent_pc' = "recv"
    /\ UNCHANGED <<twin, control_mode, board_size, game_vars, frames_counter, pause,
                   key_pressed, state_queue, sim_pc, agent_state, steps, step_end>>

\* the agent thread ends: an unwrap of lines 439-450 panics, or a channel
\* whose other end is gone fails its recv (queue empty) or its send
AgentPanic ==
    /\ control_mode = "External"
    /\ \/ agent_pc = "send"
       \/ agent_pc = "recv" /\ state_queue = <<>> /\ SimGone
    /\ agent_pc' = "dead"
    /\ UNCHANGED <<twin, control_mode, board_size, game_vars, frames_counter, pause,
                   key_pressed, state_queue, move_queue, sim_pc, agent_state,
                   steps, step_end>>

Next ==
    \/ KeyboardFrame
    \/ KeyboardGameOver
    \/ ExternalReset
    \/ ExternalSend
    \/ ExternalRecv
    \/ ExternalRecvFail
    \/ WindowClose
    \/ AgentRecv
    \/ AgentSend
    \/ AgentPanic

Spec == Init /\ [][Next]_vars

\* the window game as main wires it: Mode::External and the agent thread
InitExternal == InitIn({"External"} \X Boards)

NextExternal ==
    \/ ExternalReset
    \/ ExternalSend
    \/ ExternalRecv
    \/ ExternalRecvFail
    \/ WindowClose
    \/ AgentRecv
    \/ AgentSend
    \/ AgentPanic

SpecExternal == InitExternal /\ [][NextExternal]_vars

\* the board of init, line 102, is square: (16, 16)
SquareBoards == {bs \in Boards : bs[1] = bs[2]}
InitMain == InitIn({"External"} \X SquareBoards)

\* main as it starts the program: External mode on the square board
SpecMain == InitMain /\ [][NextExternal]_vars

\* the two loops while both run: run_as_game (lines 381-391) with the window
\* open, and the agent loop (lines 436-463) with none of its unwraps failing
SimLoop == ExternalReset \/ ExternalSend \/ ExternalRecv
AgentLoop == AgentRecv \/ AgentSend
NextLive ==
    \/ ExternalReset
    \/ ExternalSend
    \/ ExternalRecv
    \/ AgentRecv
    \/ AgentSend

\* both threads are scheduled fairly: a loop that can take a step takes one
SpecLive ==
    InitMain /\ [][NextLive]_vars /\ WF_vars(SimLoop) /\ WF_vars(AgentLoop)

(***************************************************************************)
(* The two control modes side by side.  The window game runs in            *)
(* Mode::Keyboard; twin.game is the same game run by the External branch   *)
(* of update_game, which executes one tick, with one intent, where the     *)
(* Keyboard game executes a step, that is on the frames with               *)
(* frames_counter % 10 = 0.  The key of such a frame is the key of the     *)
(* intent and the other frames have no key.  Both games take their fruit   *)
(* draws from one sequence: update_env draws only when it finds no fruit   *)
(* (line 144), and the k-th draw of one game is the k-th draw of the       *)
(* other; drawn_by_direct and drawn_by_twin hold the draws one game has    *)
(* taken and the other has not taken yet.                                  *)
(***************************************************************************)
\* the key that asks for the turn of an intent (lines 173-199 and 242-263)
TwinKey(m) ==
    CASE m = "TOP" -> "KEY_UP"
      [] m = "BTM" -> "KEY_DOWN"
      [] m = "LFT" -> "KEY_LEFT"
      [] m = "RHT" -> "KEY_RIGHT"
      [] OTHER -> "NONE"

\* update_game, Mode::External, lines 216 and 241-271, on a game record
RemoteTick(g, m, bs, random_position) ==
    MoveOrIdle([g EXCEPT !.allow_move = TRUE,
                         !.snake_velocity = MoveTurn(@, m)],
               bs, random_position)

\* line 144: update_env draws iff it finds no fruit; the draw is the next one
\* the other game has taken already, or a new one
NextDraws(fruit, taken) ==
    IF fruit # None THEN {<<0, 0>>}
    ELSE IF taken # <<>> THEN {Head(taken)}
    ELSE Cells(board_size)

\* the two queues of draws after the window game has run update_env with d
AfterDirectDraw(d) ==
    IF fruit_position # None THEN twin
    ELSE IF twin.drawn_by_twin # <<>>
         THEN [twin EXCEPT !.drawn_by_twin = Tail(@)]
         ELSE [twin EXCEPT !.drawn_by_direct = Append(@, d)]

\* the twin after its tick with intent m and draw e
AfterTwinTick(q, m, e) ==
    [game |-> RemoteTick(q.game, m, board_size, e),
     drawn_by_direct |-> IF q.game.fruit_position = None /\ q.drawn_by_direct # <<>>
                         THEN Tail(q.drawn_by_direct) ELSE q.drawn_by_direct,
     drawn_by_twin |-> IF q.game.fruit_position = None /\ q.drawn_by_direct = <<>>
                       THEN Append(q.drawn_by_twin, e) ELSE q.drawn_by_twin]

\* the pair is followed while both games are on and, step for step, alike
TwinRuns ==
    /\ control_mode = "Keyboard"
    /\ ~twin.game.game_over
    /\ steps > 0 /\ frames_counter = 1 => snake_position = twin.game.snake_position

\* a frame on which the Keyboard game steps: the twin ticks with the intent
TwinStepFrame ==
    /\ TwinRuns
    /\ frames_counter % FramesPerStep = 0
    /\ \E m \in Moves :
       \E d \in NextDraws(fruit_position, twin.drawn_by_twin) :
       \E q \in {AfterDirectDraw(d)} :
       \E e \in NextDraws(q.game.fruit_position, q.drawn_by_direct) :
          /\ KeyboardTick(TwinKey(m), d)
          /\ twin' = AfterTwinTick(q, m, e)

\* a frame between two steps: no key, and the twin has no tick
TwinIdleFrame ==
    /\ TwinRuns
    /\ frames_counter % FramesPerStep # 0
    /\ \E d \in NextDraws(fruit_position, twin.drawn_by_twin) :
          /\ KeyboardTick("NONE", d)
          /\ twin' = AfterDirectDraw(d)

InitTwin == InitIn({"Keyboard"} \X Boards)

NextTwin ==
    \/ TwinStepFrame
    \/ TwinIdleFrame

SpecTwin == InitTwin /\ [][NextTwin]_vars

(***************************************************************************)
(* The claims.                                                             *)
(***************************************************************************)
Head0 == snake_position[1]
InBoard(p, bs) == p[1] >= 0 /\ p[1] < bs[1] /\ p[2] >= 0 /\ p[2] < bs[2]
Distinct(body) == \A i, j \in 1..Len(body) : i # j => body[i] # body[j]
StepExecuted == steps' = steps + 1
IsReset == game_over /\ ~game_over'

\* C1: in every reachable state in which game_over is false, no two elements
\* of the snake body are equal.
C1_NoTwoSegmentsEqual == ~game_over => Distinct(snake_position)

FruitOffSnake == fruit_position # None => ~OnSnake(snake_position, fruit_position[1])

\* C2: in every reachable state the fruit, if present, is on no body segment;
\* and a respawn that substitutes last_position puts the fruit on a cell no
\* segment occupies, so a tick that starts without a fruit never ends with
\* the freshly spawned fruit already eaten.
C2_FruitOffSnake ==
    /\ []FruitOffSnake
    /\ [][fruit_position = None /\ ~IsReset =>
            Len(snake_position') = Len(snake_position)]_vars

\* C5: in every reachable state in which game_over is false the head is on
\* the board: 0 <= column < width and 0 <= row < height.
C5_HeadInBoard == ~game_over => InBoard(Head0, board_size)

\* C5 witness: a step put the head outside the board and the game is over.
C5_Witness == steps > 0 /\ game_over /\ ~InBoard(Head0, board_size)

\* C3 helpers: the messages in flight and the snapshot the agent works on
InFlight == Len(state_queue) + Len(move_queue)
Held == IF agent_pc = "send" THEN 1 ELSE 0
IntentConsumed == Len(move_queue') < Len(move_queue)
SnapshotSent == Len(state_queue') > Len(state_queue)

\* C3: in External mode the two threads run in lockstep: at most one message
\* is in flight on the two channels together, a simulation thread at the top
\* of its loop has none outstanding, one blocked on recv has exactly one
\* (snapshot in flight, snapshot with the agent, or intent in flight), a
\* snapshot is sent only on the way to that recv, and a step executes exactly
\* when one intent is consumed.
C3_Lockstep ==
    /\ [](InFlight + Held <= 1)
    /\ [](sim_pc = "tick" => InFlight + Held = 0)
    /\ [](sim_pc = "recv" /\ agent_pc # "dead" => InFlight + Held = 1)
    /\ [][SnapshotSent =>
            /\ sim_pc = "tick" /\ sim_pc' = "recv"
            /\ Len(state_queue') = Len(state_queue) + 1]_vars
    /\ [][StepExecuted \/ IntentConsumed =>
            /\ StepExecuted /\ sim_pc = "recv" /\ sim_pc' = "tick"
            /\ move_queue # <<>> /\ move_queue' = Tail(move_queue)]_vars

\* C3 witness: a later step's intent is in flight while the simulation waits.
C3_Witness ==
    /\ control_mode = "External" /\ steps > 0
    /\ sim_pc = "recv" /\ Len(move_queue) = 1 /\ state_queue = <<>>

\* C4 helpers: the direction an intent asks for, and the velocity after it
MoveDirection(m) ==
    CASE m = "TOP" -> <<0, -1>>
      [] m = "BTM" -> <<0, 1>>
      [] m = "LFT" -> <<-1, 0>>
      [] m = "RHT" -> <<1, 0>>
      [] OTHER -> <<0, 0>>
Perpendicular(v, d) == v[1] * d[1] + v[2] * d[2] = 0 /\ d # <<0, 0>>
IntentApplied ==
    control_mode = "External" /\ StepExecuted =>
        /\ move_queue # <<>>
        /\ LET d == MoveDirection(Head(move_queue))
           IN  snake_velocity' = IF Perpendicular(snake_velocity, d)
                                 THEN d ELSE snake_velocity
        /\ snake_position'[1] = <<snake_position[1][1] + snake_velocity'[1],
                                  snake_position[1][2] + snake_velocity'[2]>>
IsStart(g, bs) ==
    /\ g.snake_position = <<StartPosition(bs)>>
    /\ g.fruit_position = None
    /\ g.score = 0
    /\ ~g.game_over

\* C4 as claimed: the snapshot the agent works on is the game as the last
\* completed step left it (the initial game before the first step), and the
\* intent answering it is applied in the very next step.
C4_SnapshotOfLastStep ==
    /\ [](agent_pc = "send" =>
            agent_state = <<[board |-> ExternalState(step_end, board_size),
                             score |-> step_end.score]>>)
    /\ [][IntentApplied]_vars

\* C4 amended: the snapshot the agent works on is the game as it is, which is
\* the game as the last completed step left it or, when that step ended the
\* game, the start state the reset restored; the intent answering it is
\* applied in the very next step.
C4_SnapshotOfCurrentGame ==
    /\ [](agent_pc = "send" =>
            /\ agent_state = <<[board |-> ExternalState(Game, board_size),
                                score |-> score]>>
            /\ \/ Seen(Game) = step_end
               \/ step_end.game_over /\ IsStart(Game, board_size))
    /\ [][IntentApplied]_vars

\* C4 witness: the agent works on the snapshot sent after a reset.
C4_Witness ==
    /\ agent_pc = "send" /\ step_end.game_over /\ steps = 0
    /\ IsStart(Game, board_size)

\* C6: on every tick but a reset the body grows by 0 or 1, it grows only on
\* a tick that executes a simulation step, and a step onto the fruit that
\* lay on the board grows it by exactly 1, a step elsewhere by 0.
C6_GrowsOnlyOnCapture ==
    [][~IsReset =>
        LET grow == Len(snake_position') - Len(snake_position)
        IN  /\ grow \in {0, 1}
            /\ grow = 1 => StepExecuted
            /\ StepExecuted /\ fruit_position # None =>
                  grow = IF snake_position'[1] = fruit_position[1] THEN 1 ELSE 0]_vars

\* C7 helpers
KeyDirection(key) ==
    CASE key = "KEY_RIGHT" -> <<1, 0>>
      [] key = "KEY_LEFT" -> <<-1, 0>>
      [] key = "KEY_DOWN" -> <<0, 1>>
      [] key = "KEY_UP" -> <<0, -1>>
      [] OTHER -> <<0, 0>>
Opposite(v, d) == d = <<0 - v[1], 0 - v[2]>>
FrameRan == control_mode = "Keyboard" /\ frames_counter' # frames_counter
IntentTaken == control_mode = "External" /\ sim_pc = "recv" /\ sim_pc' = "tick"

\* C7: in both modes a requested turn opposite to the current velocity
\* leaves the velocity unchanged.
C7_ReversalIgnored ==
    /\ [][FrameRan /\ Opposite(snake_velocity, KeyDirection(key_pressed')) =>
            snake_velocity' = snake_velocity]_vars
    /\ [][IntentTaken /\ Opposite(snake_velocity, MoveDirection(Head(move_queue))) =>
            snake_velocity' = snake_velocity]_vars

\* C7 witness: a frame read the key opposite to the velocity it kept.
C7_Witness ==
    /\ control_mode = "Keyboard" /\ steps > 0
    /\ key_pressed = "KEY_LEFT" /\ snake_velocity = <<1, 0>>

\* C8 helpers: the cell values and the index the interface documents
CellValue(p) ==
    IF fruit_position # None /\ fruit_position[1] = p THEN 2
    ELSE IF OnSnake(snake_position, p) THEN 1 ELSE 0
Encodes(s) ==
    /\ Len(s.board) = board_size[1] * board_size[2]
    /\ \A k \in 1..Len(s.board) : s.board[k] \in {0, 1, 2}
    /\ \A p \in Cells(board_size) :
          s.board[p[1] * board_size[2] + p[2] + 1] = CellValue(p)
    /\ s.score = score

C9_DisconnectStopsLoop ==
    /\ [][agent_pc = "dead" =>
            /\ ~StepExecuted
            /\ state_queue' = state_queue /\ move_queue' = move_queue
            /\ sim_pc' # sim_pc => sim_pc' \in {"panicked", "closed"}]_vars
    /\ [][sim_pc = "panicked" =>
            sim_pc' = "panicked" /\ UNCHANGED <<game_vars, steps>>]_vars

\* C9 witness: the agent is gone and the simulation thread stopped on it.
C9_Witness == agent_pc = "dead" /\ sim_pc = "panicked" /\ steps > 0

\* C10: once game_over is true a tick that is no reset leaves the body, the
\* velocity, the fruit and the score as they are.
C10_FrozenAfterGameOver ==
    [][game_over /\ game_over' =>
        UNCHANGED <<snake_position, snake_velocity, fruit_position, score>>]_vars

\* C11: a reset leaves the start condition (one segment on the start cell,
\* velocity (1,0), no fruit, score 0, game on) and touches neither the board
\* size, the control mode nor the channels; in Keyboard mode the update_env
\* call that ends the same frame then spawns the fruit.
C11_ResetRestoresStart ==
    /\ [](LET r == reset(Game, board_size)
          IN  /\ r.snake_position = <<StartPosition(board_size)>>
              /\ r.snake_velocity = <<1, 0>>
              /\ r.fruit_position = <<>>
              /\ r.score = 0
              /\ ~r.game_over)
    /\ [][IsReset =>
            /\ snake_position' = <<StartPosition(board_size)>>
            /\ snake_velocity' = <<1, 0>>
            /\ score' = 0
            /\ control_mode = "External" => fruit_position' = <<>>
            /\ UNCHANGED <<board_size, control_mode, state_queue, move_queue,
                           sim_pc, agent_pc>>]_vars

\* C11 witness: a lost game has been reset and no step has run since.
C11_Witness ==
    /\ step_end.game_over /\ ~game_over /\ steps = 0
    /\ snake_position = <<StartPosition(board_size)>> /\ score = 0

\* C12: a step whose new head is the cell the segment behind the head had
\* before the shift ends with game_over true, for every body of length >= 2.
C12_NeckCollision ==
    [][StepExecuted /\ Len(snake_position) >= 2
         /\ snake_position'[1] = snake_position[2] => game_over']_vars

\* C13 helpers: the body update_env saw when it respawned the fruit
FreeCells(body) == {p \in Cells(board_size) : ~OnSnake(body, p)}
BodyAtRespawn ==
    IF Len(snake_position') > Len(snake_position) /\ ~IsReset
    THEN SubSeq(snake_position', 1, Len(snake_position') - 1)
    ELSE snake_position'
EnvRan ==
    \/ control_mode = "Keyboard" /\ sim_pc = "tick" /\ sim_pc' = "tick"
    \/ control_mode = "External" /\ sim_pc = "recv" /\ sim_pc' = "tick"

\* C13: a respawn that finds the fruit absent and the body on every cell of
\* the board but one puts the fruit on that free cell, whatever is drawn.
C13_RespawnOnFreeCell ==
    [][EnvRan /\ fruit_position = None /\ ~game_over'
         /\ Cardinality(FreeCells(BodyAtRespawn)) = 1 =>
            /\ fruit_position' # None
            /\ fruit_position'[1] \in FreeCells(BodyAtRespawn)]_vars

\* C14: but for a reset, a tick that moves the snake changes the score by
\* -1, and by +20 more if it captures the fruit; a tick that does not move
\* the snake leaves the score as it is.
C14_ScorePerTick ==
    [][~IsReset =>
        LET grow == Len(snake_position') - Len(snake_position)
        IN  score' - score =
                IF StepExecuted THEN 20 * grow - 1 ELSE 0]_vars

\* C16: the velocity is always one of (1,0), (-1,0), (0,1), (0,-1).
C16_UnitVelocity ==
    snake_velocity \in {<<1, 0>>, <<-1, 0>>, <<0, 1>>, <<0, -1>>}

\* C16 witness: a turn was taken and a step ran on it.
C16_Witness == steps > 0 /\ ~game_over /\ snake_velocity = <<0, -1>>

\* C18: in Keyboard mode the velocity a step uses is never the opposite of
\* the velocity the step before it used.
C18_NoReversalBetweenSteps ==
    [][control_mode = "Keyboard" /\ StepExecuted /\ steps >= 1 =>
            ~Opposite(step_end.snake_velocity, snake_velocity')]_vars

\* C19: in Keyboard mode a frame of a running game that executes no step
\* leaves the body and the score unchanged.
C19_IdleFrameFreezes ==
    [][control_mode = "Keyboard" /\ ~game_over /\ ~StepExecuted =>
            UNCHANGED <<snake_position, score>>]_vars

\* C17: with both threads running and scheduled fairly, a simulation thread
\* blocked on the intent channel always gets an intent and ends its tick, a
\* tick that starts (a lost game, or a game within the bounds of the model)
\* always reaches that recv, across game over and reset as well, and neither
\* thread ever stops.
C17_HandshakeLive ==
    /\ (sim_pc = "recv") ~> (sim_pc = "tick")
    /\ (sim_pc = "tick" /\ (game_over \/ InBounds)) ~> (sim_pc = "recv")
    /\ game_over ~> (~game_over /\ steps = 0)
    /\ [](sim_pc \in {"tick", "recv"} /\ agent_pc \in {"recv", "send"})

\* C17 witness: after a lost game and its reset the simulation thread is
\* blocked on the intent channel again and the agent has the snapshot.
C17_Witness ==
    /\ sim_pc = "recv" /\ agent_pc = "send" /\ move_queue = <<>>
    /\ step_end.game_over /\ steps = 0 /\ ~game_over

\* C20 helper: every index the snapshot loop writes
SnapshotIndices ==
    {SnakeIndex(snake_position[i], board_size) : i \in 1..Len(snake_position)}
        \cup (IF fruit_position = None THEN {}
              ELSE {FruitIndex(fruit_position[1], board_size)})

\* C20: when the External tick builds a snapshot the game is not over, every
\* segment and the fruit are inside the board and every index written is in
\* [0, width*height), so the simulation thread never faults there; a lost
\* game is reset before any snapshot is built.
C20_SnapshotInRange ==
    /\ [](sim_pc = "tick" /\ ~game_over =>
            /\ \A i \in 1..Len(snake_position) :
                    InBoard(snake_position[i], board_size)
            /\ fruit_position # None => InBoard(fruit_position[1], board_size)
            /\ \A k \in SnapshotIndices : k >= 0 /\ k < BoardLen(board_size)
            /\ ~IndexFaults(Game, board_size))
    /\ [](sim_pc = "panicked" => agent_pc = "dead")
    /\ [][SnapshotSent => ~game_over /\ ~game_over']_vars
    /\ [][game_over /\ sim_pc = "tick" /\ sim_pc' # "closed" => IsReset]_vars

\* C20 witness: a snapshot of a grown snake with a fruit on the 3x3 board
\* has been built and sent.
C20_Witness ==
    /\ sim_pc = "recv" /\ board_size = <<3, 3>>
    /\ Len(snake_position) >= 2 /\ fruit_position # None

\* C15: fed the same intents (as keys, on the frames that step) and the same
\* fruit draws, the Keyboard game and the External game have the same body
\* after every step.
C15_SameTrajectory ==
    steps > 0 /\ frames_counter = 1 =>
        snake_position = twin.game.snake_position

====
